---- MODULE Spec2Model ----
(***************************************************************************)
(* Model of the training test of edsnlp (tests/training/test_train.py:     *)
(* LengthSortedBatchSampler, brat_dataset.load, TestScorer, train) and of  *)
(* the BRAT connector (edsnlp/utils/brat.py).                              *)
(***************************************************************************)
EXTENDS Integers, Sequences, FiniteSets, TLC

(***************************************************************************)
(* Bounds of the model.                                                    *)
(***************************************************************************)
MaxSteps == 10
MaxInterval == 5
MaxDraws == 4
MaxN == 2
MaxBatch == 3
MaxLen == 1
MaxValDocs == 1
MaxDuration == 1
MaxEnts == 2
MaxLines == 2

\* train(batch_size: int = 4, validation_interval: int = 10)
batch_size_default == 4
validation_interval_default == 10

\* LengthSortedBatchSampler.__init__: noise=1
noise == 1

NoModel == -1
NoDuration == -1
NoLimit == -1

VARIABLES
    \* ---- train() and the objects it owns
    max_steps,            \* train(max_steps=...)
    validation_interval,  \* train(validation_interval=...)
    batch_size,           \* train(batch_size=...)
    dataset,              \* preprocessed: sequence of word_tokens lengths
    val_docs,             \* val_docs: sequence of document lengths (in words)
    pc,                   \* position of train()
    step,                 \* loop variable of `for step in count()`
    model,                \* number of optimizer steps applied to nlp
    acc_steps,            \* acc_steps
    disk,                 \* output_path/"last-model": model state persisted, or NoModel
    saves,                \* steps at which nlp.to_disk ran, in order
    events,               \* steps at which the scorer ran after a save, in order
    last_scores,          \* last_scores
    loaded,               \* nlp reloaded from last-model after the loop
    err,                  \* exception that ended train(), "" when none
    duration,             \* duration measured by the last scorer call, NoDuration before
    \* ---- iterator of LengthSortedBatchSampler
    rest,                 \* items of the current sorted pass not yet batched
    buffer,               \* batches of the shuffled buffer not yet yielded
    batch,                \* last batch returned by next(iterator)
    draws,                \* number of batches next(iterator) has returned
    \* ---- brat_dataset(path, limit).load
    corpus,               \* the documents BratConnector(path).load_brat() gives
    raw_data,             \* raw_data
    limit,                \* limit, NoLimit for None
    lpc,                  \* position of load()
    docs,                 \* docs, once annotated (lines 66-91)
    new_docs,             \* new_docs
    lerr,                 \* exception that ended load(), "" when none
    \* ---- BratConnector on one note: brat2docs, then doc2brat
    note_text,            \* <note_id>.txt, a text
    ann_file,             \* <note_id>.ann as found: a sequence of lines
    annotations,          \* the DataFrame of read_brat_annotation: a sequence of rows
    doc_ents,             \* doc.ents after brat2docs
    out_file,             \* <note_id>.ann as written by doc2brat
    bpc,                  \* position of the connector
    berr                  \* exception that ended the connector, "" when none

cfgVars == <<max_steps, validation_interval, batch_size, dataset, val_docs>>
trainVars == <<cfgVars, pc,
               step, model, acc_steps, disk, saves, events, last_scores, loaded, err,
               duration>>
samplerVars == <<rest, buffer, batch, draws>>
loadVars == <<corpus, raw_data, limit, lpc, docs, new_docs, lerr>>
bratVars == <<note_text, ann_file, annotations, doc_ents, out_file, bpc, berr>>
vars == <<trainVars, samplerVars, loadVars, bratVars>>

(***************************************************************************)
(* Helpers                                                                 *)
(***************************************************************************)
SeqsUpTo(S, n) == UNION {[1..k -> S] : k \in 0..n}

\* math.ceil(a / b) for a >= 0, b >= 1
Ceil(a, b) == (a + b - 1) \div b

RECURSIVE SumSeq(_)
SumSeq(s) == IF s = <<>> THEN 0 ELSE Head(s) + SumSeq(Tail(s))

\* all orders of the elements of s (the outcomes of random.shuffle)
Shuffles(s) ==
    LET n == Len(s)
        P == {f \in [1..n -> 1..n] : \A i, j \in 1..n : i # j => f[i] # f[j]}
    IN  {[i \in 1..n |-> s[f[i]]] : f \in P}

(***************************************************************************)
(* LengthSortedBatchSampler.__iter__                                       *)
(***************************************************************************)
\* sample_len(idx) for one draw nz of random.randint(-noise, noise)
sample_len(ds, idx, nz) == ds[idx + 1] + nz

\* sorted(range(len(dataset)), key=sample_len): Python's sort is stable, so
\* index i comes after every j with a smaller key, or an equal key and j < i.
\* An item keeps, beside the dataset index, its position in its pass.
sorted_pass(ds, nzs) ==
    LET N == Len(ds)
        key(i) == sample_len(ds, i, nzs[i])
        rank(i) == Cardinality({j \in 0..(N - 1) :
                        key(j) < key(i) \/ (key(j) = key(i) /\ j < i)})
    IN  [p \in 1..N |->
            [idx |-> CHOOSE i \in 0..(N - 1) : rank(i) = p - 1, pos |-> p - 1]]

\* the passes one evaluation of sorted(...) can produce
Passes(ds) ==
    {sorted_pass(ds, nzs) : nzs \in [0..(Len(ds) - 1) -> (0 - noise)..noise]}

\* chain.from_iterable(sorted(...) for _ in repeat(None)): the next k items of
\* the stream whose current pass has s left; a new pass is sorted when the
\* current one is used up.  Set of <<items, s'>>.  Needs Len(ds) > 0.
RECURSIVE sequences(_, _, _)
sequences(ds, s, k) ==
    IF k = 0 THEN {<<<< >>, s>>}
    ELSE IF s = << >> THEN UNION {sequences(ds, p, k) : p \in Passes(ds)}
    ELSE {<<<<Head(s)>> \o r[1], r[2]>> : r \in sequences(ds, Tail(s), k - 1)}

\* batchify(sequences, batch_size): the next n batches.  Set of <<batches, s'>>.
RECURSIVE batchify(_, _, _, _)
batchify(ds, s, B, n) ==
    IF n = 0 THEN {<<<< >>, s>>}
    ELSE UNION {
            {<<<<b[1]>> \o r[1], r[2]>> : r \in batchify(ds, b[2], B, n - 1)}
         : b \in sequences(ds, s, B)}

\* next(iterator): yield from the current buffer, or fill the next buffer with
\* ceil(len(dataset) / batch_size) batches, shuffle it and yield its first.
\* a sampler that stops after its first buffer of batches
LengthSortedBatchSampler_iter_OnePass(ds, B, s, buf) ==
    IF buf # << >>
    THEN {[batch |-> Head(buf), buffer |-> Tail(buf), rest |-> s]}
    ELSE IF draws > 0 THEN {}
    ELSE UNION {
            {[batch |-> Head(sh), buffer |-> Tail(sh), rest |-> r[2]]
                : sh \in Shuffles(r[1])}
         : r \in batchify(ds, s, B, Ceil(Len(ds), B))}

LengthSortedBatchSampler_iter(ds, B, s, buf) ==
    IF buf # << >>
    THEN {[batch |-> Head(buf), buffer |-> Tail(buf), rest |-> s]}
    ELSE UNION {
            {[batch |-> Head(sh), buffer |-> Tail(sh), rest |-> r[2]]
                : sh \in Shuffles(r[1])}
         : r \in batchify(ds, s, B, Ceil(Len(ds), B))}

(***************************************************************************)
(* Texts, tokens and spans (the tokenizer and sentencizer of the pipeline  *)
(* and spaCy's Doc.char_span)                                              *)
(***************************************************************************)
\* A text is a sequence of sentences, a sentence a sequence of tokens, a token
\* its width in characters; the tokens tile the text.
Texts ==
    { << <<2>> >>, << <<1, 2>> >>, << <<2, 1>> >>,
      << <<2>>, <<1>> >>, << <<1>>, <<2>> >>, << <<1>>, <<1>>, <<1>> >> }

Labels == {"A", "B"}

\* the labels the "ner" component is trained on
TargetLabels == {"A"}

RECURSIVE Flatten(_)
Flatten(ss) == IF ss = << >> THEN << >> ELSE Head(ss) \o Flatten(Tail(ss))

\* the token widths of a text
Tokens(text) == Flatten(text)

\* number of characters of the first n tokens
RECURSIVE Offset(_, _)
Offset(toks, n) == IF n = 0 THEN 0 ELSE Offset(toks, n - 1) + toks[n]

NChars(text) == Offset(Tokens(text), Len(Tokens(text)))

\* index (from 0) of the token that holds character c
token_by_char(toks, c) ==
    CHOOSE i \in 0..(Len(toks) - 1) : Offset(toks, i) <= c /\ c < Offset(toks, i + 1)

\* doc.char_span(begin, end, label=label, alignment_mode="expand") for
\* 0 <= begin < end <= len(text): the tokens from the one holding `begin` to the
\* one holding `end - 1`
char_span(text, begin, end, label) ==
    [start |-> token_by_char(Tokens(text), begin),
     end |-> token_by_char(Tokens(text), end - 1) + 1,
     label |-> label]

\* doc.sents: the token range [start, end) of the k-th sentence
Sent(text, k) ==
    LET lens == [i \in 1..Len(text) |-> Len(text[i])]
    IN  [start |-> Offset(lens, k - 1), end |-> Offset(lens, k)]

\* the lists of fragments of an entity over a text of n characters: one
\* fragment, or two in order with a gap between them
Fragments(n) ==
    LET F == {f \in [begin : 0..n, end : 0..n] : f.begin < f.end}
    IN  {<<f>> : f \in F}
        \cup {<<f1, f2>> : <<f1, f2>> \in {p \in F \X F : p[1].end < p[2].begin}}

RawEntities(text) ==
    {[label |-> l, fragments |-> fr] : l \in Labels, fr \in Fragments(NChars(text))}

RawDocs ==
    UNION {{[text |-> t, entities |-> es] : es \in SeqsUpTo(RawEntities(t), MaxEnts)}
           : t \in Texts}

(***************************************************************************)
(* brat_dataset(path, limit).load                                          *)
(***************************************************************************)
LoadIdle ==
    /\ corpus = << >>
    /\ raw_data = << >>
    /\ limit = NoLimit
    /\ lpc = "idle"
    /\ docs = << >>
    /\ new_docs = << >>
    /\ lerr = ""

\* the sizes of the corpora considered: empty, or one document
DocCounts == {0, 1}

\* line 62: the assertion fails
NoDataFound(raw) == ~(Len(raw) > 0)

\* lines 63-64: raw_data[:limit]
Limited(raw, lim) ==
    IF lim = NoLimit THEN raw ELSE SubSeq(raw, 1, IF lim < Len(raw) THEN lim ELSE Len(raw))

Overlap(a, b) == a.start < b.end /\ b.start < a.end

\* filter_spans(ents): longest span first, ties to the earliest start (then to
\* the earliest in the list); a span overlapping one already kept is discarded
RECURSIVE filter_spans_rec(_, _)
filter_spans_rec(cands, kept) ==
    IF cands = << >> THEN kept
    ELSE LET len(x) == x.end - x.start
             before(i, j) ==
                 \/ len(cands[i]) > len(cands[j])
                 \/ len(cands[i]) = len(cands[j]) /\ cands[i].start < cands[j].start
                 \/ len(cands[i]) = len(cands[j]) /\ cands[i].start = cands[j].start /\ i <= j
             b == CHOOSE i \in 1..Len(cands) : \A j \in 1..Len(cands) : before(i, j)
             others == SubSeq(cands, 1, b - 1) \o SubSeq(cands, b + 1, Len(cands))
         IN  IF \E k \in kept : Overlap(cands[b], k)
             THEN filter_spans_rec(others, kept)
             ELSE filter_spans_rec(others, kept \cup {cands[b]})

filter_spans(ents) == filter_spans_rec(ents, {})

\* the labels of the spans, each once, in the order they first appear: the key
\* order of span_groups
RECURSIVE FirstSeen(_, _)
FirstSeen(spans, seen) ==
    IF spans = << >> THEN << >>
    ELSE IF Head(spans).label \in seen THEN FirstSeen(Tail(spans), seen)
    ELSE <<Head(spans).label>> \o FirstSeen(Tail(spans), seen \cup {Head(spans).label})

\* lines 78-91 for the d-th document: the spans of its entities, doc.ents,
\* doc.spans
Annotate(raw, d) ==
    LET spans == [i \in 1..Len(raw.entities) |->
                    LET ent == raw.entities[i]
                    IN  char_span(raw.text,
                                  ent.fragments[1].begin,
                                  ent.fragments[Len(ent.fragments)].end,
                                  ent.label)]
        keys == FirstSeen(spans, {})
    IN  [note |-> d,
         text |-> raw.text,
         ents |-> filter_spans(spans),
         spans |-> [g \in 1..Len(keys) |->
                      [group |-> keys[g],
                       spans |-> LET InGroup(x) == x.label = keys[g]
                                 IN  SelectSeq(spans, InGroup)]]]

\* line 106 with the test of the span's end left out
SpanInSent_StartOnly(span, sent) == span.start >= sent.start /\ span.start < sent.end

\* line 106
SpanInSent(span, sent) == span.start >= sent.start /\ span.end <= sent.end

\* lines 98-107: new_doc.spans[group]
SentSpans(group_spans, sent) ==
    LET Inside(x) == SpanInSent(x, sent)
        kept == SelectSeq(group_spans, Inside)
    IN  [i \in 1..Len(kept) |->
            [start |-> kept[i].start - sent.start,
             end |-> kept[i].end - sent.start,
             label |-> kept[i].label]]

\* ner.get_target_spans(new_doc): the spans of the example's groups whose label
\* is a target label
get_target_spans(groups) ==
    {<<g, i>> \in (1..Len(groups)) \X (1..MaxEnts) :
        i <= Len(groups[g].spans) /\ groups[g].spans[i].label \in TargetLabels}

\* lines 96-107 for sentence k of doc, with the groups 1..n assigned; `note` and
\* `sent` say which sentence of which document the example is
NewDoc(doc, k, n) ==
    LET sent == Sent(doc.text, k)
    IN  [note |-> doc.note,
         sent |-> k,
         n_tokens |-> sent.end - sent.start,
         ents |-> {[start |-> e.start - sent.start, end |-> e.end - sent.start,
                    label |-> e.label] : e \in {x \in doc.ents : SpanInSent(x, sent)}},
         spans |-> [g \in 1..n |->
                      [group |-> doc.spans[g].group,
                       spans |-> SentSpans(doc.spans[g].spans, sent)]]]

\* lines 97-109 for sentence k: the test of line 108 runs after each group is
\* assigned, and each time it passes new_doc is appended; the list holds the one
\* object new_doc, which has all its groups when the loop ends
RECURSIVE AppendsOfSent(_, _, _)
AppendsOfSent(doc, k, g) ==
    IF g > Len(doc.spans) THEN << >>
    ELSE (IF get_target_spans(NewDoc(doc, k, g).spans) # {}
          THEN <<NewDoc(doc, k, Len(doc.spans))>> ELSE << >>)
         \o AppendsOfSent(doc, k, g + 1)

\* lines 95-109 for the sentences k.. of doc
RECURSIVE SplitDoc(_, _)
SplitDoc(doc, k) ==
    IF k > Len(doc.text) THEN << >>
    ELSE AppendsOfSent(doc, k, 1) \o SplitDoc(doc, k + 1)

\* lines 94-109
RECURSIVE SplitDocs(_)
SplitDocs(ds) ==
    IF ds = << >> THEN << >> ELSE SplitDoc(Head(ds), 1) \o SplitDocs(Tail(ds))

\* lines 61-64: the corpus is read, asserted non-empty and cut to `limit`
LoadBrat ==
    /\ lpc = "idle"
    /\ \E raw \in SeqsUpTo(RawDocs, 1), lim \in {NoLimit} \cup DocCounts :
         /\ Len(raw) \in DocCounts
         /\ corpus' = raw
         /\ limit' = lim
         /\ IF NoDataFound(raw)
            THEN /\ raw_data' = raw
                 /\ lpc' = "raised"
                 /\ lerr' = "AssertionError"
            ELSE /\ raw_data' = Limited(raw, lim)
                 /\ lpc' = "annotate"
                 /\ lerr' = ""
    /\ UNCHANGED <<docs, new_docs, trainVars, samplerVars, bratVars>>

\* lines 66-91: the documents are tokenized, split in sentences and annotated
AnnotateDocs ==
    /\ lpc = "annotate"
    /\ docs' = [i \in 1..Len(raw_data) |-> Annotate(raw_data[i], i)]
    /\ lpc' = "split"
    /\ UNCHANGED <<corpus, raw_data, limit, new_docs, lerr, trainVars, samplerVars, bratVars>>

\* lines 93-110: one example per sentence, and return
SplitSentences ==
    /\ lpc = "split"
    /\ new_docs' = SplitDocs(docs)
    /\ lpc' = "returned"
    /\ UNCHANGED <<corpus, raw_data, limit, docs, lerr, trainVars, samplerVars, bratVars>>

(***************************************************************************)
(* edsnlp/utils/brat.py: read_brat_annotation and BratConnector            *)
(***************************************************************************)
\* The `annot` column of a line is a string; it is kept as the sequence of its
\* lexemes: a word, a number, a space or a semicolon.
Word(w) == [k |-> "word", s |-> w, n |-> 0]
Num(i) == [k |-> "num", s |-> "", n |-> i]
Space == [k |-> "space", s |-> "", n |-> 0]
Semi == [k |-> "semi", s |-> "", n |-> 0]

\* str.split(sep): the pieces between the separators, empty ones kept
RECURSIVE SplitOn(_, _)
SplitOn(str, sep) ==
    IF str = << >> THEN << << >> >>
    ELSE LET r == SplitOn(Tail(str), sep)
         IN  IF Head(str).k = sep
             THEN << << >> >> \o r
             ELSE << <<Head(str)>> \o Head(r) >> \o Tail(r)

\* str.split(): the pieces between runs of whitespace, none of them empty
str_split(str) ==
    LET NonEmpty(piece) == piece # << >>
    IN  SelectSeq(SplitOn(str, "space"), NonEmpty)

\* ' '.join(pieces)
RECURSIVE str_join(_)
str_join(pieces) ==
    IF pieces = << >> THEN << >>
    ELSE IF Len(pieces) = 1 THEN Head(pieces)
    ELSE Head(pieces) \o <<Space>> \o str_join(Tail(pieces))

\* whether astype(int) accepts the piece
IsInt(piece) == Len(piece) = 1 /\ piece[1].k = "num"

\* lines 34-40 on one row with `end` read after the cut at the first ';'
read_row_EndOfFirst(line) ==
    LET annot == SplitOn(line.annot, "semi")[1]
        pieces == str_split(annot)
    IN  [index |-> line.index,
         start |-> pieces[Len(pieces) - 1],
         end |-> pieces[Len(pieces)],
         label |-> str_join(SubSeq(pieces, 1, Len(pieces) - 2)),
         lexical_variant |-> line.lexical_variant]

\* lines 34-40 on one row: `end` is the last piece of the whole annot, then the
\* annot is cut at the first ';' and gives `label` and `start`
read_row(line) ==
    LET end == str_split(line.annot)[Len(str_split(line.annot))]
        annot == SplitOn(line.annot, "semi")[1]
        pieces == str_split(annot)
    IN  [index |-> line.index,
         start |-> pieces[Len(pieces) - 1],
         end |-> end,
         label |-> str_join(SubSeq(pieces, 1, Len(pieces) - 2)),
         lexical_variant |-> line.lexical_variant]

\* read_brat_annotation(filename): the rows, or the error of astype(int).  An
\* empty file (EmptyDataError) gives no row.
read_brat_annotation(file) ==
    LET rows == [i \in 1..Len(file) |-> read_row(file[i])]
    IN  IF \E i \in 1..Len(rows) : ~IsInt(rows[i].start) \/ ~IsInt(rows[i].end)
        THEN [raised |-> "ValueError", rows |-> << >>]
        ELSE [raised |-> "",
              rows |-> [i \in 1..Len(rows) |->
                          [index |-> rows[i].index,
                           start |-> rows[i].start[1].n,
                           end |-> rows[i].end[1].n,
                           label |-> rows[i].label,
                           lexical_variant |-> rows[i].lexical_variant]]]

\* the order of Doc.ents: by position in the text
RECURSIVE SortByStart(_)
SortByStart(S) ==
    IF S = {} THEN << >>
    ELSE LET m == CHOOSE x \in S : \A y \in S : x.start <= y.start
         IN  <<m>> \o SortByStart(S \ {m})

\* lines 163-176 of brat2docs for one note: a span per row, then doc.ents = spans,
\* which spaCy refuses when two of the spans share a token
brat2docs(text, rows) ==
    LET spans == [i \in 1..Len(rows) |->
                    char_span(text, rows[i].start, rows[i].end, rows[i].label)]
    IN  IF \E i, j \in 1..Len(spans) : i # j /\ Overlap(spans[i], spans[j])
        THEN [raised |-> "ValueError", ents |-> << >>]
        ELSE [raised |-> "", ents |-> SortByStart({spans[i] : i \in 1..Len(spans)})]

\* the characters [begin, end) of the text; a character is kept as its position
Chars(begin, end) == [begin |-> begin, end |-> end]

\* lines 206-212 for the i-th entity (i from 0), numbered from T0
doc2brat_row_FromZero(text, ent, i) ==
    LET start_char == Offset(Tokens(text), ent.start)
        end_char == Offset(Tokens(text), ent.end)
    IN  [index |-> i,
         annot |-> ent.label \o <<Space, Num(start_char), Space, Num(end_char)>>,
         lexical_variant |-> <<Chars(start_char, end_char)>>]

\* lines 194-212 for the i-th entity (i from 0): index T{i+1}, annot
\* "label start end", lexical_variant the text of the span
doc2brat_row(text, ent, i) ==
    LET start_char == Offset(Tokens(text), ent.start)
        end_char == Offset(Tokens(text), ent.end)
    IN  [index |-> i + 1,
         annot |-> ent.label \o <<Space, Num(start_char), Space, Num(end_char)>>,
         lexical_variant |-> <<Chars(start_char, end_char)>>]

\* doc2brat(doc): the lines of the .ann file; no entity gives an empty file
doc2brat(text, ents) == [i \in 1..Len(ents) |-> doc2brat_row(text, ents[i], i - 1)]

\* the numbers entity ids are drawn from ("T1", "T7")
Ids == {1, 7}

\* the fragments of an annot: "start end", or "start end;start end"
FragmentText(f) == <<Num(f.begin), Space, Num(f.end)>>

RECURSIVE FragmentsText(_)
FragmentsText(fr) ==
    IF Len(fr) = 1 THEN FragmentText(Head(fr))
    ELSE FragmentText(Head(fr)) \o <<Semi>> \o FragmentsText(Tail(fr))

\* a well-formed line: "T<id> TAB label start end[;start end] TAB text", the
\* text being the texts of the fragments; `fragments` keeps the fragments the
\* line was written from
Line(id, ent) ==
    [index |-> id,
     annot |-> <<Word(ent.label), Space>> \o FragmentsText(ent.fragments),
     lexical_variant |-> [i \in 1..Len(ent.fragments) |->
                            Chars(ent.fragments[i].begin, ent.fragments[i].end)],
     fragments |-> ent.fragments]

Lines(text) == {Line(id, ent) : id \in Ids, ent \in RawEntities(text)}

BratIdle ==
    /\ note_text = << >>
    /\ ann_file = << >>
    /\ annotations = << >>
    /\ doc_ents = << >>
    /\ out_file = << >>
    /\ bpc = "idle"
    /\ berr = ""

\* get_brat on a directory with one note: the text and the annotation file are
\* read (lines 124-139)
GetBrat ==
    /\ bpc = "idle"
    /\ \E text \in Texts : \E file \in SeqsUpTo(Lines(text), MaxLines) :
         LET df == read_brat_annotation(file)
         IN  /\ note_text' = text
             /\ ann_file' = file
             /\ annotations' = df.rows
             /\ berr' = df.raised
             /\ bpc' = IF df.raised # "" THEN "raised" ELSE "read"
    /\ UNCHANGED <<doc_ents, out_file, trainVars, samplerVars, loadVars>>

\* get_brat on a directory with no note: pd.concat of no DataFrame (line 131)
GetBratNoNote ==
    /\ bpc = "idle"
    /\ bpc' = "raised"
    /\ berr' = "ValueError"
    /\ UNCHANGED <<note_text, ann_file, annotations, doc_ents, out_file,
                   trainVars, samplerVars, loadVars>>

\* brat2docs (lines 155-178)
Brat2Docs ==
    /\ bpc = "read"
    /\ LET d == brat2docs(note_text, annotations)
       IN  /\ doc_ents' = d.ents
           /\ berr' = d.raised
           /\ bpc' = IF d.raised # "" THEN "raised" ELSE "doc"
    /\ UNCHANGED <<note_text, ann_file, annotations, out_file,
                   trainVars, samplerVars, loadVars>>

\* doc2brat (lines 189-222)
Doc2Brat ==
    /\ bpc = "doc"
    /\ out_file' = doc2brat(note_text, doc_ents)
    /\ bpc' = "written"
    /\ UNCHANGED <<note_text, ann_file, annotations, doc_ents, berr,
                   trainVars, samplerVars, loadVars>>

(***************************************************************************)
(* TestScorer.__call__                                                     *)
(***************************************************************************)
NoScores == [raised |-> "unbound"]

\* ds: the documents' lengths; dur: time.time() - t0; ents_f_is_1: whether
\* the registered "ner" scorer returned ents_f = 1.0.  The quotients of the
\* "speed" entry are kept as integer quotients.
TestScorer_call(ds, dur, ents_f_is_1) ==
    IF dur = 0
    THEN [raised |-> "ZeroDivisionError"]
    ELSE [raised |-> "",
          ner |-> ents_f_is_1,
          wps |-> SumSeq(ds) \div dur,
          dps |-> Len(ds) \div dur]

(***************************************************************************)
(* train()                                                                 *)
(***************************************************************************)
\* the condition of line 214
\* a schedule without the validation of the last step
ValidationDue_NoFinal(s) == (s % validation_interval) = 0

ValidationDue(s) == (s % validation_interval) = 0 \/ s = max_steps

\* train() is not running
TrainIdle ==
    /\ max_steps = 0
    /\ validation_interval = 1
    /\ batch_size = 1
    /\ dataset = << >>
    /\ val_docs = << >>
    /\ pc = "idle"
    /\ step = 0
    /\ model = 0
    /\ acc_steps = 0
    /\ disk = NoModel
    /\ saves = << >>
    /\ events = << >>
    /\ last_scores = NoScores
    /\ loaded = NoModel
    /\ err = ""
    /\ duration = NoDuration
    /\ rest = << >>
    /\ buffer = << >>
    /\ batch = << >>
    /\ draws = 0

\* the state when train() is entered, its arguments drawn from the given sets
InitTrain(Steps, Intervals, Batches, Datasets, ValDocs) ==
    /\ max_steps \in Steps
    /\ validation_interval \in Intervals
    /\ batch_size \in Batches
    /\ dataset \in Datasets
    /\ val_docs \in ValDocs
    /\ pc = "INIT"
    /\ step = 0
    /\ model = 0
    /\ acc_steps = 0
    /\ disk = NoModel
    /\ saves = << >>
    /\ events = << >>
    /\ last_scores = NoScores
    /\ loaded = NoModel
    /\ err = ""
    /\ duration = NoDuration
    /\ rest = << >>
    /\ buffer = << >>
    /\ batch = << >>
    /\ draws = 0
    /\ LoadIdle
    /\ BratIdle

\* lines 153-212: data loading, dataloader, optimizer, iterator = iter(dataloader)
Setup ==
    /\ UNCHANGED <<loadVars, bratVars>>
    /\ pc = "INIT"
    /\ pc' = "loop"
    /\ step' = 0
    /\ acc_steps' = 0
    /\ rest' = << >>
    /\ buffer' = << >>
    /\ UNCHANGED <<cfgVars, model, disk, saves, events, last_scores, loaded, err, duration,
                   batch, draws>>

\* a to_disk that keeps the first checkpoint instead of overwriting it
ToDisk_KeepFirst ==
    /\ UNCHANGED <<loadVars, bratVars>>
    /\ pc = "loop"
    /\ ValidationDue(step)
    /\ disk' = IF disk = NoModel THEN model ELSE disk
    /\ saves' = Append(saves, step)
    /\ acc_steps' = 0
    /\ pc' = "scorer"
    /\ UNCHANGED <<cfgVars, step, model, events, last_scores, loaded, err, duration,
                   samplerVars>>

\* lines 214-218: nlp.to_disk(output_path / "last-model"), reset of the accumulators
ToDisk ==
    /\ UNCHANGED <<loadVars, bratVars>>
    /\ pc = "loop"
    /\ ValidationDue(step)
    /\ disk' = model
    /\ saves' = Append(saves, step)
    /\ acc_steps' = 0
    /\ pc' = "scorer"
    /\ UNCHANGED <<cfgVars, step, model, events, last_scores, loaded, err, duration,
                   samplerVars>>

\* line 219: last_scores = scorer(nlp, val_docs)
RunScorer ==
    /\ UNCHANGED <<loadVars, bratVars>>
    /\ pc = "scorer"
    /\ \E d \in 0..MaxDuration, f \in BOOLEAN :
         LET scores == TestScorer_call(val_docs, d, f)
         IN  /\ duration' = d
             /\ events' = Append(events, step)
             /\ IF scores.raised # ""
                THEN /\ pc' = "raised"
                     /\ err' = scores.raised
                     /\ UNCHANGED last_scores
                ELSE /\ pc' = "step"
                     /\ last_scores' = scores
                     /\ UNCHANGED err
    /\ UNCHANGED <<cfgVars, step, model, acc_steps, disk, saves, loaded, samplerVars>>

\* line 214 when the condition is false
SkipValidation ==
    /\ UNCHANGED <<loadVars, bratVars>>
    /\ pc = "loop"
    /\ ~ValidationDue(step)
    /\ pc' = "step"
    /\ UNCHANGED <<cfgVars, step, model, acc_steps, disk, saves, events, last_scores, loaded,
                   err, duration, samplerVars>>

\* lines 221-222
Break ==
    /\ UNCHANGED <<loadVars, bratVars>>
    /\ pc = "step"
    /\ step = max_steps
    /\ pc' = "DONE"
    /\ UNCHANGED <<cfgVars, step, model, acc_steps, disk, saves, events, last_scores, loaded,
                   err, duration, samplerVars>>

\* lines 223-251 and the increment of `step`: one optimization step
TrainStep ==
    /\ UNCHANGED <<loadVars, bratVars>>
    /\ pc = "step"
    /\ step # max_steps
    /\ Len(dataset) > 0
    /\ \E nb \in LengthSortedBatchSampler_iter(dataset, batch_size, rest, buffer) :
         /\ batch' = nb.batch
         /\ buffer' = nb.buffer
         /\ rest' = nb.rest
    /\ draws' = draws + 1
    /\ model' = model + 1
    /\ acc_steps' = acc_steps + 1
    /\ step' = step + 1
    /\ pc' = "loop"
    /\ UNCHANGED <<cfgVars, disk, saves, events, last_scores, loaded, err, duration>>

\* line 223 on an empty dataset: every sorted(range(0)) is empty, so the chain
\* never produces an item and next(iterator) does not return
SpinOnEmpty ==
    /\ UNCHANGED <<loadVars, bratVars>>
    /\ pc = "step"
    /\ step # max_steps
    /\ Len(dataset) = 0
    /\ pc' = "spin"
    /\ UNCHANGED <<cfgVars, step, model, acc_steps, disk, saves, events, last_scores, loaded,
                   err, duration, samplerVars>>

\* lines 253-261: the checkpoint is asserted to exist and reloaded, then the
\* last scores are asserted
Finish ==
    /\ UNCHANGED <<loadVars, bratVars>>
    /\ pc = "DONE"
    /\ IF disk = NoModel
       THEN /\ pc' = "raised"
            /\ err' = "AssertionError"
            /\ UNCHANGED loaded
       ELSE /\ loaded' = disk
            /\ IF last_scores.ner
               THEN pc' = "returned" /\ UNCHANGED err
               ELSE pc' = "raised" /\ err' = "AssertionError"
    /\ UNCHANGED <<cfgVars, step, model, acc_steps, disk, saves, events, last_scores,
                   duration, samplerVars>>

NextTrain ==
    \/ Setup
    \/ ToDisk
    \/ RunScorer
    \/ SkipValidation
    \/ Break
    \/ TrainStep
    \/ SpinOnEmpty
    \/ Finish

\* train() on the toy corpus of the test (two examples, or none), default batch
\* size, every schedule within the bounds
InitSchedule ==
    InitTrain(0..MaxSteps, 1..MaxInterval, {batch_size_default},
              {<< >>, <<1, 1>>}, SeqsUpTo(1..MaxLen, MaxValDocs))

Spec == InitSchedule /\ [][NextTrain]_vars

\* train() on every dataset and batch size within the bounds, default
\* validation interval
InitSampler ==
    InitTrain(0..MaxDraws, {validation_interval_default}, 1..MaxBatch,
              SeqsUpTo(1..MaxLen, MaxN), {<< >>})

SpecSampler == InitSampler /\ [][NextTrain]_vars

(***************************************************************************)
(* The corpus adapter on its own                                           *)
(***************************************************************************)
InitLoad == LoadIdle /\ TrainIdle /\ BratIdle

NextLoad ==
    \/ LoadBrat
    \/ AnnotateDocs
    \/ SplitSentences

SpecLoad == InitLoad /\ [][NextLoad]_vars

(***************************************************************************)
(* The BRAT connector on its own                                           *)
(***************************************************************************)
NextBrat ==
    \/ GetBrat
    \/ GetBratNoNote
    \/ Brat2Docs
    \/ Doc2Brat

SpecBrat == InitLoad /\ [][NextBrat]_vars

(***************************************************************************)
(* Claims about train(), the batch sampler and the scorer (checked under   *)
(* Spec)                                                                   *)
(***************************************************************************)
RECURSIVE SortedSeq(_)
SortedSeq(S) ==
    IF S = {} THEN << >>
    ELSE LET m == CHOOSE x \in S : \A y \in S : x <= y
         IN  <<m>> \o SortedSeq(S \ {m})

\* the steps at which the claim places a validation event
DueSteps == {s \in 0..max_steps : s % validation_interval = 0 \/ s = max_steps}

\* the steps whose iteration of the loop has got past its validation
PassedSteps ==
    {s \in 0..max_steps : s < step \/ (s = step /\ pc \notin {"INIT", "loop", "scorer"})}

\* C1: a validation event (save to last-model, then a scorer run) has happened
\* for exactly the steps s with 0 <= s <= max_steps and (s mod
\* validation_interval = 0 or s = max_steps) among the steps the loop has got
\* past, once each and in increasing order; when the loop is left all of them
\* have happened (for max_steps = 10, validation_interval = 5: at 0, 5, 10), and
\* the checkpoint exists when the run has ended.
C1_ValidationSchedule ==
    /\ events = SortedSeq(DueSteps \cap PassedSteps)
    /\ pc \in {"DONE", "returned"} => events = SortedSeq(DueSteps)
    /\ pc \in {"DONE", "returned", "raised"} => disk # NoModel

C1_Witness ==
    /\ pc = "DONE"
    /\ max_steps = 10
    /\ validation_interval = 5
    /\ events = <<0, 5, 10>>
    /\ disk # NoModel

\* C9: the model is saved to the one slot last-model before the scorer runs, what
\* is saved is the model after exactly the optimizer steps applied so far, and no
\* optimizer step follows the last save: the checkpoint reloaded after the loop
\* is the model after all max_steps optimizer steps.
C9_CheckpointIsFinalModel ==
    /\ pc = "scorer" => /\ disk = model
                        /\ model = step
                        /\ saves = Append(events, step)
    /\ pc \notin {"INIT", "loop", "scorer"} => saves = events
    /\ disk # NoModel => disk <= model
    /\ pc = "DONE" => disk = model /\ model = max_steps
    /\ pc = "returned" => loaded = max_steps /\ model = max_steps

C9_Witness ==
    /\ pc = "returned"
    /\ max_steps > 0
    /\ max_steps % validation_interval # 0
    /\ loaded = max_steps

\* C10: on a non-empty dataset every draw of the next batch returns one (the
\* optimization step can always be taken while step # max_steps, the loop never
\* hangs in the draw), the loop applies one optimizer step per step of the
\* counter, and it is left only after exactly max_steps of them.
C10_SamplerNeverExhausts ==
    Len(dataset) >= 1 =>
        /\ model = step /\ draws = step /\ step <= max_steps
        /\ (pc = "step" /\ step # max_steps) => ENABLED TrainStep
        /\ pc \in {"DONE", "returned"} => model = max_steps /\ step = max_steps
        /\ pc # "spin"

C10_Witness ==
    /\ pc = "DONE"
    /\ Len(dataset) >= 1
    /\ max_steps > 2 * Ceil(Len(dataset), batch_size)
    /\ draws = max_steps
    /\ model = max_steps

\* whether the items of batch b are consecutive items of one sorted pass
OnePass(b) == \A k \in 2..Len(b) : b[k].pos = b[k - 1].pos + 1

\* C2: every yielded batch has exactly batch_size indices, all of them valid, and
\* all from one pass: the partial batch that ends a pass is dropped, not
\* completed with indices of the next pass (so a pass gives floor(N/B) batches).
C2_BatchesWithinOnePass ==
    batch # << >> =>
        /\ Len(batch) = batch_size
        /\ \A k \in 1..Len(batch) : 0 <= batch[k].idx /\ batch[k].idx < Len(dataset)
        /\ OnePass(batch)

\* C7: a scorer call that measures a zero duration returns its scores; it does
\* not end in a division by zero.
C7_ZeroDurationDoesNotRaise ==
    duration = 0 => err # "ZeroDivisionError"

(***************************************************************************)
(* Claims about the corpus adapter (checked under SpecLoad)                *)
(***************************************************************************)
\* the spans of the groups of an example or of a document
GroupSpans(groups) ==
    UNION {{groups[g].spans[i] : i \in 1..Len(groups[g].spans)} : g \in 1..Len(groups)}

\* sentence k of document doc holds a span with a target label
HasTargetSpan(doc, k) ==
    \E x \in GroupSpans(doc.spans) :
        /\ x.label \in TargetLabels
        /\ Sent(doc.text, k).start <= x.start
        /\ x.end <= Sent(doc.text, k).end

\* number of examples of new_docs made from sentence k of document d
Examples(d, k) ==
    Cardinality({i \in 1..Len(new_docs) : new_docs[i].note = d /\ new_docs[i].sent = k})

\* C4: load() returns exactly one example for each sentence that holds a span
\* with a target label and none for any other sentence, whatever the number of
\* span groups of the document.
C4_OneExamplePerTargetSentence ==
    lpc = "returned" =>
        \A d \in 1..Len(docs) : \A k \in 1..Len(docs[d].text) :
            Examples(d, k) = IF HasTargetSpan(docs[d], k) THEN 1 ELSE 0

\* no sentence of the documents kept holds a span with a target label
NoAnnotatedExample ==
    \A d \in 1..Len(docs) : \A k \in 1..Len(docs[d].text) : ~HasTargetSpan(docs[d], k)

\* C5: a corpus with no document, or one that gives no annotated
\* example, ends load() in an error raised to the caller; load() never returns an
\* empty sequence of examples.
C5_EmptyCorpusRaises ==
    /\ (lpc # "idle" /\ Len(corpus) = 0) => lpc = "raised"
    /\ lpc = "returned" => (~NoAnnotatedExample /\ new_docs # << >>)

\* C8: every span of every example returned by load() has offsets that are
\* valid in the example: 0 <= start < end <= number of tokens of the sentence.
C8_SpanOffsetsValid ==
    \A i \in 1..Len(new_docs) :
        \A x \in GroupSpans(new_docs[i].spans) \cup new_docs[i].ents :
            0 <= x.start /\ x.start < x.end /\ x.end <= new_docs[i].n_tokens

\* an example with a span, of a document one of whose spans crosses a sentence
\* boundary
C8_Witness ==
    /\ lpc = "returned"
    /\ \E i \in 1..Len(new_docs) :
         /\ GroupSpans(new_docs[i].spans) # {}
         /\ new_docs[i].sent > 1
         /\ \E x \in GroupSpans(docs[new_docs[i].note].spans) :
              \A k \in 1..Len(docs[new_docs[i].note].text) :
                 ~(Sent(docs[new_docs[i].note].text, k).start <= x.start
                   /\ x.end <= Sent(docs[new_docs[i].note].text, k).end)

(***************************************************************************)
(* Claims about the BRAT connector (checked under SpecBrat)                *)
(***************************************************************************)
\* the annotation file of the note has been read
WasRead == bpc \in {"read", "doc", "written"} \/ (bpc = "raised" /\ note_text # << >>)

\* C6 as stated: a row read from a line has the start and the end of the line's
\* first fragment, whatever the later fragments.
C6_FirstFragmentOnly ==
    WasRead =>
        \A i \in 1..Len(annotations) :
            /\ annotations[i].start = ann_file[i].fragments[1].begin
            /\ annotations[i].end = ann_file[i].fragments[1].end

\* C6 as amended: a row read from a line has the start of the line's first
\* fragment and the end of its last fragment.
C6_FirstStartLastEnd ==
    WasRead =>
        /\ Len(annotations) = Len(ann_file)
        /\ \A i \in 1..Len(annotations) :
            /\ annotations[i].start = ann_file[i].fragments[1].begin
            /\ annotations[i].end = ann_file[i].fragments[Len(ann_file[i].fragments)].end

C6_Witness ==
    /\ bpc = "read"
    /\ \E i \in 1..Len(ann_file) :
         /\ Len(ann_file[i].fragments) = 2
         /\ annotations[i].start = ann_file[i].fragments[1].begin
         /\ annotations[i].end = ann_file[i].fragments[2].end
         /\ annotations[i].end # ann_file[i].fragments[1].end

\* the file written carries, line for line, the label, start, end and
\* lexical_variant of the file read, with the ids T1, T2, ...
SameLines ==
    LET back == read_brat_annotation(out_file)
    IN  /\ back.raised = ""
        /\ Len(out_file) = Len(ann_file)
        /\ \A i \in 1..Len(out_file) :
            /\ out_file[i].index = i
            /\ back.rows[i].label = annotations[i].label
            /\ back.rows[i].start = annotations[i].start
            /\ back.rows[i].end = annotations[i].end
            /\ out_file[i].lexical_variant = ann_file[i].lexical_variant

\* C3 as stated: for every file of well-formed lines, reading it and writing
\* the entities back gives a file with the same label, start, end and
\* lexical_variant line for line, the ids renumbered T1, T2, ...
C3_RoundTrip ==
    (WasRead /\ bpc \in {"raised", "written"}) => (bpc = "written" /\ SameLines)

\* position c of the text is a token boundary
OnBoundary(text, c) == \E i \in 0..Len(Tokens(text)) : Offset(Tokens(text), i) = c

\* the lines have one fragment each, that starts and ends on token boundaries,
\* and each line ends before the next one starts
Canonical ==
    /\ \A i \in 1..Len(ann_file) :
        /\ Len(ann_file[i].fragments) = 1
        /\ OnBoundary(note_text, ann_file[i].fragments[1].begin)
        /\ OnBoundary(note_text, ann_file[i].fragments[1].end)
    /\ \A i \in 1..(Len(ann_file) - 1) :
        ann_file[i].fragments[1].end <= ann_file[i + 1].fragments[1].begin

\* C3 as amended: the round trip gives back the label, start, end and
\* lexical_variant of every line, with the ids T1, T2, ..., when (and only when)
\* every line has a single fragment whose offsets are token boundaries and the
\* lines are in the order of the text without overlap; an empty file is written
\* back as an empty file.
C3_RoundTripOfCanonicalFiles ==
    (WasRead /\ bpc \in {"raised", "written"}) =>
        /\ Canonical <=> (bpc = "written" /\ SameLines)
        /\ (bpc = "written" /\ ann_file = << >>) => out_file = << >>

C3_Witness ==
    /\ bpc = "written"
    /\ Canonical
    /\ Len(ann_file) = 2
    /\ ann_file[1].index = 7
    /\ out_file[1].index = 1
    /\ SameLines

====
